---------------------------- MODULE Spec2Model ----------------------------
(***************************************************************************)
(* The iCalendar VTODO codec of src-tauri/src/lib.rs: the text escape      *)
(* codec, the block scanners (count_todos_in_file and                      *)
(* load_todos_from_calendar), the property parser parse_vtodo_from_lines   *)
(* and the serializer save_todos_to_calendar.                              *)
(*                                                                         *)
(* A Rust String is modelled as a sequence of characters, each character a *)
(* one-element token: an ASCII character is the string holding it, NUL and *)
(* BEL are the control characters U+0000 and U+0007, and U+00E9 is a       *)
(* character whose UTF-8 encoding is two bytes long. Lengths and slice     *)
(* indices of the source are byte offsets, and are modelled as such.       *)
(***************************************************************************)
EXTENDS Integers, Sequences, FiniteSets, TLC

VARIABLES
    pc,          \* ready, escaped and unescaped (the codec's steps), or panic
    file,        \* the content of the calendar file
    todos,       \* the Vec<Todo> the frontend hands to save_todos_to_calendar
    loaded,      \* the Vec<Todo> the last load_todos_from_calendar returned
    todo_count,  \* what the last count_todos_in_file returned
    ran,         \* the commands that have completed on the current content of file
    text,        \* the argument of escape_ical_text
    escaped,     \* the result of escape_ical_text(text)
    unescaped    \* the result of unescape_ical_text(escaped)

vars == <<pc, file, todos, loaded, todo_count, ran, text, escaped, unescaped>>

(***************************************************************************)
(* Bounds of the model.                                                    *)
(***************************************************************************)
\* The longest text handed to the escape codec.
MaxTextLen == 3
\* The most lines of a file of marker lines in any order.
MaxScanLines == 4
\* The most complete BEGIN:VTODO/END:VTODO pairs before a trailing BEGIN:VTODO.
MaxPairs == 3
\* The most property lines of a block.
MaxBlockLines == 2
\* The most todos handed to save_todos_to_calendar.
MaxTodos == 2

(***************************************************************************)
(* Characters and strings.                                                 *)
(***************************************************************************)
LF == "\n"
CR == "\r"
TAB == "\t"
NUL == "NUL"
BEL == "BEL"
EAcute == "U+00E9"
Backslash == "\\"

\* char::is_control: the C0 controls (and DEL, C1) among the model's characters.
IsControl(c) == c \in {LF, CR, TAB, NUL, BEL}

\* char::is_whitespace, which str::trim strips.
IsWhitespace(c) == c \in {" ", LF, CR, TAB}

\* char::len_utf8.
ByteLen(c) == IF c = EAcute THEN 2 ELSE 1

\* The bytes of the characters of s from character i on.
RECURSIVE BytesFrom(_, _)
BytesFrom(s, i) == IF i > Len(s) THEN 0 ELSE ByteLen(s[i]) + BytesFrom(s, i + 1)

\* str::len: the length in bytes.
StrLen(s) == BytesFrom(s, 1)

\* All strings over alphabet of at most n characters.
StringsUpTo(alphabet, n) == UNION {[1..k -> alphabet] : k \in 0..n}

\* str::starts_with.
StartsWith(s, p) == Len(s) >= Len(p) /\ SubSeq(s, 1, Len(p)) = p

\* str::replace(from, to): every non-overlapping match of from, left to right.
RECURSIVE Replace(_, _, _)
Replace(s, from, to) ==
    IF Len(s) < Len(from) THEN s
    ELSE IF StartsWith(s, from)
         THEN to \o Replace(SubSeq(s, Len(from) + 1, Len(s)), from, to)
         ELSE <<Head(s)>> \o Replace(Tail(s), from, to)

(***************************************************************************)
(* The text escape codec.                                                  *)
(***************************************************************************)
EscapeKeeps(c) == ~IsControl(c) \/ c = LF \/ c = TAB

\* .chars().filter(EscapeKeeps).collect()
RECURSIVE FilterControls(_)
FilterControls(s) ==
    IF s = <<>> THEN <<>>
    ELSE (IF EscapeKeeps(Head(s)) THEN <<Head(s)>> ELSE <<>>) \o FilterControls(Tail(s))

escape_ical_text(t) ==
    LET s1 == Replace(t, <<"\\">>, <<"\\","\\">>)
        s2 == Replace(s1, <<";">>, <<"\\",";">>)
        s3 == Replace(s2, <<",">>, <<"\\",",">>)
        s4 == Replace(s3, <<"\n">>, <<"\\","n">>)
        s5 == Replace(s4, <<"\r">>, <<>>)
        s6 == Replace(s5, <<NUL>>, <<>>)
    IN  FilterControls(s6)

\* The loop of unescape_ical_text: collapse doubled backslashes until nothing changes.
RECURSIVE CollapseBackslashes(_)
CollapseBackslashes(s) ==
    LET collapsed == Replace(s, <<"\\","\\">>, <<"\\">>)
    IN  IF collapsed = s THEN s ELSE CollapseBackslashes(collapsed)

unescape_ical_text(t) ==
    LET s0 == CollapseBackslashes(t)
        s1 == Replace(s0, <<"\\","n">>, <<"\n">>)
        s2 == Replace(s1, <<"\\","N">>, <<"\n">>)
        s3 == Replace(s2, <<"\\",";">>, <<";">>)
        s4 == Replace(s3, <<"\\",",">>, <<",">>)
    IN  s4

(***************************************************************************)
(* Lines, trimming and byte slices.                                        *)
(***************************************************************************)
\* The 1-based index of the first c in s at or after index i, 0 when there is none.
RECURSIVE IndexFrom(_, _, _)
IndexFrom(s, c, i) ==
    IF i > Len(s) THEN 0 ELSE IF s[i] = c THEN i ELSE IndexFrom(s, c, i + 1)

\* str::find(c): the 1-based index of the first c in s, 0 when there is none.
Find(s, c) == IndexFrom(s, c, 1)

\* str::contains(c).
Contains(s, c) == Find(s, c) # 0

\* The index of the first character at or after i that is no white space.
RECURSIVE TrimStartAt(_, _)
TrimStartAt(s, i) ==
    IF i <= Len(s) /\ IsWhitespace(s[i]) THEN TrimStartAt(s, i + 1) ELSE i

\* The index of the last character at or before i that is no white space.
RECURSIVE TrimEndAt(_, _)
TrimEndAt(s, i) ==
    IF i >= 1 /\ IsWhitespace(s[i]) THEN TrimEndAt(s, i - 1) ELSE i

\* str::trim.
Trim(s) == SubSeq(s, TrimStartAt(s, 1), TrimEndAt(s, Len(s)))

\* A line of str::lines with its terminator cut: "\n", or "\r\n".
StripCR(l) == IF l # <<>> /\ l[Len(l)] = CR THEN SubSeq(l, 1, Len(l) - 1) ELSE l

\* The lines of t from character start on.
RECURSIVE LinesFrom(_, _)
LinesFrom(t, start) ==
    IF start > Len(t) THEN <<>>
    ELSE LET nl == IndexFrom(t, LF, start)
         IN  IF nl = 0 THEN <<SubSeq(t, start, Len(t))>>
             ELSE <<StripCR(SubSeq(t, start, nl - 1))>> \o LinesFrom(t, nl + 1)

\* str::lines().collect(): the text split at every "\n", a "\r" before it cut too;
\* what follows the last "\n" is a line only if it is not empty.
Lines(t) == LinesFrom(t, 1)

\* The number of characters of s before byte offset n, -1 when n is inside a
\* character or past the end: k characters, off bytes, are behind.
RECURSIVE CharsBefore(_, _, _, _)
CharsBefore(s, n, k, off) ==
    IF off = n THEN k
    ELSE IF off > n \/ k = Len(s) THEN 0 - 1
    ELSE CharsBefore(s, n, k + 1, off + ByteLen(s[k + 1]))

\* str::is_char_boundary.
IsCharBoundary(s, n) == CharsBefore(s, n, 0, 0) >= 0

\* Whether &s[a..b] is a slice: otherwise the index panics.
SliceOk(s, a, b) == a <= b /\ IsCharBoundary(s, a) /\ IsCharBoundary(s, b)

\* &s[a..b], a and b byte offsets, when SliceOk(s, a, b).
Slice(s, a, b) == SubSeq(s, CharsBefore(s, a, 0, 0) + 1, CharsBefore(s, b, 0, 0))

(***************************************************************************)
(* Numbers and dates.                                                      *)
(***************************************************************************)
Digits == <<"0", "1", "2", "3", "4", "5", "6", "7", "8", "9">>

IsDigit(c) == \E d \in 1..10 : Digits[d] = c

DigitVal(c) == (CHOOSE d \in 1..10 : Digits[d] = c) - 1

\* The value of a string of decimal digits.
RECURSIVE DigitsValue(_)
DigitsValue(s) ==
    IF s = <<>> THEN 0
    ELSE 10 * DigitsValue(SubSeq(s, 1, Len(s) - 1)) + DigitVal(s[Len(s)])

\* str::parse::<i32>() (signed) and str::parse::<u32>(): an optional sign, "-" only
\* for a signed type, then at least one digit and nothing but digits.
ParseInt(s, signed) ==
    LET neg == signed /\ s # <<>> /\ Head(s) = "-"
        body == IF s # <<>> /\ (Head(s) = "+" \/ neg) THEN Tail(s) ELSE s
    IN  IF body = <<>> \/ \E i \in 1..Len(body) : ~IsDigit(body[i])
        THEN [ok |-> FALSE, val |-> 0]
        ELSE [ok |-> TRUE, val |-> IF neg THEN 0 - DigitsValue(body) ELSE DigitsValue(body)]

ParseI32(s) == ParseInt(s, TRUE)
ParseU32(s) == ParseInt(s, FALSE)

IsLeapYear(y) == y % 4 = 0 /\ (y % 100 # 0 \/ y % 400 = 0)

DaysInMonth(y, m) ==
    IF m = 2 THEN (IF IsLeapYear(y) THEN 29 ELSE 28)
    ELSE IF m \in {4, 6, 9, 11} THEN 30 ELSE 31

\* NaiveDate::from_ymd_opt(y, m, d).is_some()
ValidYmd(y, m, d) == m \in 1..12 /\ d >= 1 /\ d <= DaysInMonth(y, m)

\* NaiveDate::and_hms_opt(h, mi, s).is_some()
ValidHms(h, mi, s) == h < 24 /\ mi < 60 /\ s < 60

\* format!("{:0w$}", n) for n >= 0.
RECURSIVE Pad(_, _)
Pad(n, w) ==
    IF w <= 1 /\ n < 10 THEN <<Digits[n + 1]>>
    ELSE Pad(n \div 10, w - 1) \o <<Digits[(n % 10) + 1]>>

\* format!("{:04}", year) of an i32: the sign counts in the width.
PadYear(y) == IF y < 0 THEN <<"-">> \o Pad(0 - y, 3) ELSE Pad(y, 4)

\* chrono's %Y: four digits, and a sign before them outside 0..9999.
FormatYear(y) ==
    IF y < 0 THEN <<"-">> \o Pad(0 - y, 4)
    ELSE IF y > 9999 THEN <<"+">> \o Pad(y, 4)
    ELSE Pad(y, 4)

\* date.format("%Y-%m-%d")
FormatDate(y, m, d) == FormatYear(y) \o <<"-">> \o Pad(m, 2) \o <<"-">> \o Pad(d, 2)

\* dt.format("%Y-%m-%dT%H:%M:%S")
FormatDateTime(y, m, d, h, mi, s) ==
    FormatDate(y, m, d) \o <<"T">> \o Pad(h, 2) \o <<":">> \o Pad(mi, 2) \o <<":">> \o Pad(s, 2)

(***************************************************************************)
(* Option<String>: None is the empty sequence, Some(s) holds s.            *)
(***************************************************************************)
None == <<>>
Some(s) == <<s>>
IsSome(o) == o # <<>>
Unwrap(o) == o[1]

(***************************************************************************)
(* The property parser.                                                    *)
(***************************************************************************)
UntitledTask == <<"U","n","t","i","t","l","e","d"," ","T","a","s","k">>

\* A PRIORITY arm whose middle bucket ends at 5 and not at 6.
PriorityOfLowFromSix(property_value) ==
    IF property_value \in {<<"1">>, <<"2">>, <<"3">>} THEN <<"h","i","g","h">>
    ELSE IF property_value \in {<<"4">>, <<"5">>} THEN <<"m","e","d","i","u","m">>
    ELSE IF property_value \in {<<"6">>, <<"7">>, <<"8">>, <<"9">>} THEN <<"l","o","w">>
    ELSE <<"m","e","d","i","u","m">>

\* The PRIORITY arm: the match on property_value.
PriorityOf(property_value) ==
    IF property_value \in {<<"1">>, <<"2">>, <<"3">>} THEN <<"h","i","g","h">>
    ELSE IF property_value \in {<<"4">>, <<"5">>, <<"6">>} THEN <<"m","e","d","i","u","m">>
    ELSE IF property_value \in {<<"7">>, <<"8">>, <<"9">>} THEN <<"l","o","w">>
    ELSE <<"m","e","d","i","u","m">>

\* What a date arm does to its field: it panics on a slice that is none, leaves
\* the field as it is (skip), or stores a value (set).
DatePanic == [kind |-> "panic", value |-> <<>>]
DateSkip == [kind |-> "skip", value |-> <<>>]
DateSet(v) == [kind |-> "set", value |-> v]

\* The three nested parses of year, month and day out of the eight bytes of
\* date_part: a panic, a skip, or the three numbers.
Ymd(date_part) ==
    IF ~SliceOk(date_part, 0, 4) THEN DatePanic
    ELSE LET year == ParseI32(Slice(date_part, 0, 4))
         IN  IF ~year.ok THEN DateSkip
             ELSE IF ~SliceOk(date_part, 4, 6) THEN DatePanic
             ELSE LET month == ParseU32(Slice(date_part, 4, 6))
                  IN  IF ~month.ok THEN DateSkip
                      ELSE IF ~SliceOk(date_part, 6, 8) THEN DatePanic
                      ELSE LET day == ParseU32(Slice(date_part, 6, 8))
                           IN  IF ~day.ok THEN DateSkip
                               ELSE [kind |-> "ymd", value |-> <<year.val, month.val, day.val>>]

\* The one element of a set of one: binds a value that was computed once.
The(S) == CHOOSE x \in S : TRUE

\* A calendar date out of year, month and day.
DateOnly(y, m, d) == IF ValidYmd(y, m, d) THEN DateSet(FormatDate(y, m, d)) ELSE DateSkip

\* The DUE arm.
ParseDue(property_value) ==
    IF StrLen(property_value) >= 8
    THEN IF ~SliceOk(property_value, 0, 8) THEN DatePanic
         ELSE The({IF r.kind = "ymd" THEN DateOnly(r.value[1], r.value[2], r.value[3]) ELSE r :
                       r \in {Ymd(Slice(property_value, 0, 8))}})
    ELSE DateSkip

\* The CREATED | DTSTAMP arm.
ParseCreated(property_value) ==
    IF StrLen(property_value) >= 15 /\ Contains(property_value, "T")
    THEN IF ~SliceOk(property_value, 0, 8) \/ ~SliceOk(property_value, 9, 15)
         THEN DatePanic
         ELSE LET date_part == Slice(property_value, 0, 8)
                  time_part == Slice(property_value, 9, 15)
                  Hms(y, m, d) ==
                      IF ~SliceOk(time_part, 0, 2) THEN DatePanic
                      ELSE LET hour == ParseU32(Slice(time_part, 0, 2))
                           IN  IF ~hour.ok THEN DateSkip
                               ELSE IF ~SliceOk(time_part, 2, 4) THEN DatePanic
                               ELSE LET minute == ParseU32(Slice(time_part, 2, 4))
                                    IN  IF ~minute.ok THEN DateSkip
                                        ELSE IF ~SliceOk(time_part, 4, 6) THEN DatePanic
                                        ELSE LET second == ParseU32(Slice(time_part, 4, 6))
                                             IN  IF ~second.ok THEN DateSkip
                                                 ELSE IF ValidYmd(y, m, d)
                                                         /\ ValidHms(hour.val, minute.val, second.val)
                                                      THEN DateSet(FormatDateTime(y, m, d,
                                                               hour.val, minute.val, second.val))
                                                      ELSE DateSkip
              IN  The({IF r.kind = "ymd" THEN Hms(r.value[1], r.value[2], r.value[3]) ELSE r :
                           r \in {Ymd(date_part)}})
    ELSE IF StrLen(property_value) = 8
         THEN The({IF r.kind = "ymd" THEN DateOnly(r.value[1], r.value[2], r.value[3]) ELSE r :
                       r \in {Ymd(property_value)}})
         ELSE DateSkip

\* The locals of parse_vtodo_from_lines before its loop.
InitialFields ==
    [id |-> <<>>, title |-> <<>>, description |-> <<>>, completed |-> FALSE,
     priority |-> <<"m","e","d","i","u","m">>, category |-> None, due_date |-> None,
     created_at |-> None, panicked |-> FALSE]

\* The name before the first ";" of the name before the first ":" of a trimmed
\* line that holds a ":".
BaseProperty(line) ==
    LET property_name == SubSeq(line, 1, Find(line, ":") - 1)
        semi == Find(property_name, ";")
    IN  IF semi # 0 THEN SubSeq(property_name, 1, semi - 1) ELSE property_name

PropertyValue(line) == SubSeq(line, Find(line, ":") + 1, Len(line))

\* A date arm that clears its field when it stores nothing.
AfterDateClearing(acc, f, r) ==
    IF r.kind = "panic" THEN [acc EXCEPT !.panicked = TRUE]
    ELSE IF r.kind = "set" THEN [acc EXCEPT ![f] = Some(r.value)]
    ELSE [acc EXCEPT ![f] = None]

\* Field f of acc after a date arm.
AfterDate(acc, f, r) ==
    IF r.kind = "panic" THEN [acc EXCEPT !.panicked = TRUE]
    ELSE IF r.kind = "set" THEN [acc EXCEPT ![f] = Some(r.value)]
    ELSE acc

\* One turn of the loop of parse_vtodo_from_lines.
ParseLine(acc, raw_line) ==
    LET line == Trim(raw_line)
    IN  IF acc.panicked \/ line = <<>> \/ Find(line, ":") = 0 THEN acc
        ELSE LET base_property == BaseProperty(line)
                 property_value == PropertyValue(line)
             IN  CASE base_property = <<"U","I","D">> -> [acc EXCEPT !.id = property_value]
                   [] base_property = <<"S","U","M","M","A","R","Y">> ->
                        [acc EXCEPT !.title = unescape_ical_text(property_value)]
                   [] base_property = <<"D","E","S","C","R","I","P","T","I","O","N">> ->
                        [acc EXCEPT !.description = unescape_ical_text(property_value)]
                   [] base_property = <<"S","T","A","T","U","S">> ->
                        [acc EXCEPT !.completed = (property_value = <<"C","O","M","P","L","E","T","E","D">>)]
                   [] base_property = <<"P","R","I","O","R","I","T","Y">> ->
                        [acc EXCEPT !.priority = PriorityOf(property_value)]
                   [] base_property = <<"C","A","T","E","G","O","R","I","E","S">> ->
                        [acc EXCEPT !.category = Some(unescape_ical_text(property_value))]
                   [] base_property = <<"D","U","E">> ->
                        AfterDate(acc, "due_date", ParseDue(property_value))
                   [] base_property \in {<<"C","R","E","A","T","E","D">>, <<"D","T","S","T","A","M","P">>} ->
                        AfterDate(acc, "created_at", ParseCreated(property_value))
                   [] OTHER -> acc

RECURSIVE ParseLines(_, _)
ParseLines(acc, lines) ==
    IF lines = <<>> THEN acc ELSE ParseLines(ParseLine(acc, Head(lines)), Tail(lines))

\* A parser that gives every todo a new id, whatever UID its block holds.
parse_vtodo_with_new_id(lines, calendar_name, uuid) ==
    LET acc == ParseLines(InitialFields, lines)
    IN  IF acc.panicked THEN [kind |-> "Panic"]
        ELSE [kind |-> "Ok",
              todo |-> [id |-> uuid,
                        title |-> IF acc.title = <<>> THEN UntitledTask ELSE acc.title,
                        description |-> acc.description,
                        completed |-> acc.completed,
                        priority |-> acc.priority,
                        category |-> acc.category,
                        due_date |-> acc.due_date,
                        created_at |-> acc.created_at,
                        calendar_name |-> calendar_name]]

\* parse_vtodo_from_lines(lines, calendar_name), uuid the value of Uuid::new_v4():
\* Ok(todo), or a panic. No path of it returns Err.
parse_vtodo_from_lines(lines, calendar_name, uuid) ==
    LET acc == ParseLines(InitialFields, lines)
    IN  IF acc.panicked THEN [kind |-> "Panic"]
        ELSE [kind |-> "Ok",
              todo |-> [id |-> IF acc.id = <<>> THEN uuid ELSE acc.id,
                        title |-> IF acc.title = <<>> THEN UntitledTask ELSE acc.title,
                        description |-> acc.description,
                        completed |-> acc.completed,
                        priority |-> acc.priority,
                        category |-> acc.category,
                        due_date |-> acc.due_date,
                        created_at |-> acc.created_at,
                        calendar_name |-> calendar_name]]

(***************************************************************************)
(* The block scanners.                                                     *)
(***************************************************************************)
BEGIN_VTODO == <<"B","E","G","I","N",":","V","T","O","D","O">>
END_VTODO == <<"E","N","D",":","V","T","O","D","O">>

\* The inner loops `while i < lines.len() && lines[i].trim() != "END:VTODO"`,
\* entered at line i (1-based): the line they stop at, Len(lines) + 1 at the end.
RECURSIVE SkipToEnd(_, _)
SkipToEnd(lines, i) ==
    IF i <= Len(lines) /\ Trim(lines[i]) # END_VTODO THEN SkipToEnd(lines, i + 1) ELSE i

\* A counting loop that counts every BEGIN:VTODO line, one line at a time.
RECURSIVE CountLoopEveryBegin(_, _, _)
CountLoopEveryBegin(lines, i, count) ==
    IF i > Len(lines) THEN count
    ELSE CountLoopEveryBegin(lines, i + 1,
                             IF Trim(lines[i]) = BEGIN_VTODO THEN count + 1 ELSE count)

\* The outer loop of count_todos_in_file from line i on.
RECURSIVE CountLoop(_, _, _)
CountLoop(lines, i, count) ==
    IF i > Len(lines) THEN count
    ELSE IF Trim(lines[i]) = BEGIN_VTODO
         THEN CountLoop(lines, SkipToEnd(lines, i) + 1, count + 1)
         ELSE CountLoop(lines, i + 1, count)

\* A count of the END:VTODO lines: the blocks that are closed.
RECURSIVE CountEnds(_, _)
CountEnds(lines, i) ==
    IF i > Len(lines) THEN 0
    ELSE (IF Trim(lines[i]) = END_VTODO THEN 1 ELSE 0) + CountEnds(lines, i + 1)
count_end_lines(content) == CountEnds(Lines(content), 1)

\* count_todos_in_file, of the content of the file.
count_todos_in_file(content) == CountLoop(Lines(content), 1, 0)

\* A loading loop that drops a block the file ends in.
RECURSIVE LoadLoopClosedBlocks(_, _)
LoadLoopClosedBlocks(lines, i) ==
    IF i > Len(lines) THEN <<>>
    ELSE IF Trim(lines[i]) = BEGIN_VTODO
         THEN LET j == SkipToEnd(lines, i + 1)
              IN  (IF j <= Len(lines) THEN <<SubSeq(lines, i + 1, j - 1)>> ELSE <<>>)
                  \o LoadLoopClosedBlocks(lines, j + 1)
         ELSE LoadLoopClosedBlocks(lines, i + 1)

\* The outer loop of load_todos_from_calendar from line i on: the vtodo_lines of
\* every block it hands to parse_vtodo_from_lines, in order.
RECURSIVE LoadLoop(_, _)
LoadLoop(lines, i) ==
    IF i > Len(lines) THEN <<>>
    ELSE IF Trim(lines[i]) = BEGIN_VTODO
         THEN LET j == SkipToEnd(lines, i + 1)
              IN  <<SubSeq(lines, i + 1, j - 1)>> \o LoadLoop(lines, j + 1)
         ELSE LoadLoop(lines, i + 1)

VtodoBlocks(content) == LoadLoop(Lines(content), 1)

\* The file stem of calendar_path.
CalendarName == <<"w","o","r","k">>

\* The todos pushed for the parse results rs: an Err is logged and skipped.
RECURSIVE OkTodos(_)
OkTodos(rs) ==
    IF rs = <<>> THEN <<>>
    ELSE (IF Head(rs).kind = "Ok" THEN <<Head(rs).todo>> ELSE <<>>) \o OkTodos(Tail(rs))

\* load_todos_from_calendar of the content of the file, uuids[k] the value
\* Uuid::new_v4() has in the parse of block k: Ok(todos), or a panic.
load_todos_from_calendar(content, uuids) ==
    LET blocks == VtodoBlocks(content)
        rs == [k \in 1..Len(blocks) |->
                   parse_vtodo_from_lines(blocks[k], CalendarName, uuids[k])]
    IN  IF \E k \in 1..Len(rs) : rs[k].kind = "Panic"
        THEN [kind |-> "Panic", todos |-> <<>>]
        ELSE [kind |-> "Ok", todos |-> OkTodos(rs)]

(***************************************************************************)
(* chrono's parse_from_str, on strings that hold no white space.           *)
(***************************************************************************)
\* How many of the first max characters of s are digits, up to the first other.
RECURSIVE DigitsFrom(_, _, _)
DigitsFrom(s, max, k) ==
    IF k = Len(s) \/ k = max \/ ~IsDigit(s[k + 1]) THEN k ELSE DigitsFrom(s, max, k + 1)
LeadingDigits(s, max) == DigitsFrom(s, max, 0)

ScanFailed == [ok |-> FALSE, vals |-> <<>>]

\* The items of fmt scanned off s in turn. %Y takes a sign and then any number of
\* digits, or up to four digits; the other numeric items take one or two digits;
\* a literal takes itself; nothing may be left over.
RECURSIVE Scan(_, _, _)
Scan(s, fmt, vals) ==
    IF fmt = <<>> THEN [ok |-> s = <<>>, vals |-> vals]
    ELSE LET item == Head(fmt)
         IN  IF item \in {"%Y", "%m", "%d", "%H", "%M", "%S"}
             THEN LET signed == item = "%Y" /\ s # <<>> /\ Head(s) \in {"-", "+"}
                      body == IF signed THEN Tail(s) ELSE s
                      width == IF signed THEN Len(body) ELSE IF item = "%Y" THEN 4 ELSE 2
                      n == LeadingDigits(body, width)
                      v == DigitsValue(SubSeq(body, 1, n))
                  IN  IF n = 0 THEN ScanFailed
                      ELSE Scan(SubSeq(body, n + 1, Len(body)), Tail(fmt),
                                Append(vals, IF signed /\ Head(s) = "-" THEN 0 - v ELSE v))
             ELSE IF s # <<>> /\ Head(s) = item
                  THEN Scan(Tail(s), Tail(fmt), vals)
                  ELSE ScanFailed

\* NaiveDate::parse_from_str(s, "%Y-%m-%d"): ok, and year, month, day.
ParseNaiveDate(s) ==
    LET r == Scan(s, <<"%Y", "-", "%m", "-", "%d">>, <<>>)
    IN  IF r.ok /\ ValidYmd(r.vals[1], r.vals[2], r.vals[3])
        THEN r ELSE ScanFailed

\* NaiveDateTime::parse_from_str(s, "%Y-%m-%dT%H:%M:%S"): ok, and year, month, day,
\* hour, minute, second. Second 60 is read as a leap second, whose second() is 59.
ParseNaiveDateTime(s) ==
    LET r == Scan(s, <<"%Y", "-", "%m", "-", "%d", "T", "%H", ":", "%M", ":", "%S">>, <<>>)
    IN  IF r.ok /\ ValidYmd(r.vals[1], r.vals[2], r.vals[3])
           /\ r.vals[4] < 24 /\ r.vals[5] < 60 /\ r.vals[6] <= 60
        THEN [r EXCEPT !.vals[6] = IF @ = 60 THEN 59 ELSE @] ELSE ScanFailed

(***************************************************************************)
(* The serializer.                                                         *)
(***************************************************************************)
CRLF == <<"\r","\n">>

CalendarHeader ==
    <<"B","E","G","I","N",":","V","C","A","L","E","N","D","A","R","\r","\n">> \o <<"V","E","R","S","I","O","N",":","2",".","0","\r","\n">>
    \o <<"P","R","O","D","I","D",":","-","/","/","T","o","d","o"," ","C","a","l","e","n","d","a","r","/","/","T","o","d","o"," ","C","a","l","e","n","d","a","r","/","/","E","N","\r","\n">> \o <<"C","A","L","S","C","A","L","E",":","G","R","E","G","O","R","I","A","N","\r","\n">>

\* The match on todo.priority.
PriorityDigit(priority) ==
    IF priority = <<"h","i","g","h">> THEN <<"1">>
    ELSE IF priority = <<"m","e","d","i","u","m">> THEN <<"5">>
    ELSE IF priority = <<"l","o","w">> THEN <<"9">>
    ELSE <<"5">>

\* format!("{:04}{:02}{:02}", year, month, day)
CompactDate(y, m, d) == PadYear(y) \o Pad(m, 2) \o Pad(d, 2)

\* format!("{:04}{:02}{:02}T{:02}{:02}{:02}Z", ..)
CompactDateTime(y, m, d, h, mi, s) ==
    CompactDate(y, m, d) \o <<"T">> \o Pad(h, 2) \o Pad(mi, 2) \o Pad(s, 2) \o <<"Z">>

\* The DUE line of a todo, or nothing.
DueLine(due_date) ==
    IF IsSome(due_date) /\ ParseNaiveDate(Unwrap(due_date)).ok
    THEN LET v == ParseNaiveDate(Unwrap(due_date)).vals
         IN  <<"D","U","E",":">> \o CompactDate(v[1], v[2], v[3]) \o CRLF
    ELSE <<>>

\* The CREATED line of a todo, or nothing.
CreatedLine(created_at) ==
    IF ~IsSome(created_at) THEN <<>>
    ELSE IF ParseNaiveDate(Unwrap(created_at)).ok
    THEN LET v == ParseNaiveDate(Unwrap(created_at)).vals
         IN  <<"C","R","E","A","T","E","D",":">> \o CompactDate(v[1], v[2], v[3]) \o CRLF
    ELSE IF ParseNaiveDateTime(Unwrap(created_at)).ok
    THEN LET v == ParseNaiveDateTime(Unwrap(created_at)).vals
         IN  <<"C","R","E","A","T","E","D",":">> \o CompactDateTime(v[1], v[2], v[3], v[4], v[5], v[6]) \o CRLF
    ELSE <<>>

\* The body of `for todo in todos`, now the value of Utc::now() in this turn.
SerializeTodo(todo, now) ==
    <<"B","E","G","I","N",":","V","T","O","D","O","\r","\n">>
    \o <<"U","I","D",":">> \o todo.id \o CRLF
    \o <<"S","U","M","M","A","R","Y",":">> \o escape_ical_text(todo.title) \o CRLF
    \o (IF todo.description # <<>>
        THEN <<"D","E","S","C","R","I","P","T","I","O","N",":">> \o escape_ical_text(todo.description) \o CRLF ELSE <<>>)
    \o (IF todo.completed THEN <<"S","T","A","T","U","S",":","C","O","M","P","L","E","T","E","D","\r","\n">> ELSE <<"S","T","A","T","U","S",":","N","E","E","D","S","-","A","C","T","I","O","N","\r","\n">>)
    \o <<"P","R","I","O","R","I","T","Y",":">> \o PriorityDigit(todo.priority) \o CRLF
    \o (IF IsSome(todo.category)
        THEN <<"C","A","T","E","G","O","R","I","E","S",":">> \o escape_ical_text(Unwrap(todo.category)) \o CRLF ELSE <<>>)
    \o DueLine(todo.due_date)
    \o CreatedLine(todo.created_at)
    \o <<"D","T","S","T","A","M","P",":">> \o CompactDateTime(now[1], now[2], now[3], now[4], now[5], now[6]) \o CRLF
    \o <<"E","N","D",":","V","T","O","D","O","\r","\n">>

RECURSIVE SerializeTodos(_, _)
SerializeTodos(ts, nows) ==
    IF ts = <<>> THEN <<>>
    ELSE SerializeTodo(Head(ts), Head(nows)) \o SerializeTodos(Tail(ts), Tail(nows))

\* The calendar_content save_todos_to_calendar writes to the file, nows[k] the
\* value of Utc::now() in the turn of todo k.
save_todos_to_calendar(ts, nows) ==
    CalendarHeader \o SerializeTodos(ts, nows) \o <<"E","N","D",":","V","C","A","L","E","N","D","A","R","\r","\n">>

(***************************************************************************)
(* The inputs of the model.                                                *)
(***************************************************************************)
\* The characters of the texts handed to the escape codec.
EscapeAlphabet == {Backslash, "n", "N", ";", ",", "a", LF, NUL}

\* Uuid::new_v4().to_string() in call k of a run of the parser whose random
\* generator is in state r: no two calls return the same.
UuidRuns == {"1", "2"}
NewUuid(r, k) == <<"u","u","i","d","-">> \o <<r>> \o <<"-">> \o Pad(k, 1)

\* Utc::now() in turn k of a run of the serializer, by the clock that run sees:
\* year, month, day, hour, minute, second.
ClockRuns == {"early", "tick", "late"}
UtcNow(c, k) ==
    IF c = "early" \/ (c = "tick" /\ k = 1)
    THEN <<2026, 11, 1, 9, 30, 0>>
    ELSE <<2026, 11, 1, 9, 30, 1>>

\* All sequences of at most n elements of S.
SeqsUpTo(S, n) == UNION {[1..k -> S] : k \in 0..n}

\* The lines, each ended by eol, as one text.
RECURSIVE JoinLines(_, _)
JoinLines(lines, eol) ==
    IF lines = <<>> THEN <<>> ELSE Head(lines) \o eol \o JoinLines(Tail(lines), eol)

\* Files of marker lines and other lines in any order.
ScanLinePool == {BEGIN_VTODO, END_VTODO, <<" ","B","E","G","I","N",":","V","T","O","D","O","\t">>, <<"S","U","M","M","A","R","Y",":","x">>}
ScanFiles == {JoinLines(ls, <<"\n">>) : ls \in SeqsUpTo(ScanLinePool, MaxScanLines)}

\* Files of k complete BEGIN:VTODO/END:VTODO pairs and one BEGIN:VTODO more, with
\* a property line in the blocks that c names (0 names the last).
RECURSIVE PairLines(_, _)
PairLines(k, c) ==
    IF k = 0 THEN <<>>
    ELSE PairLines(k - 1, c) \o <<BEGIN_VTODO>>
         \o (IF k \in c THEN <<<<"S","U","M","M","A","R","Y",":","x">>>> ELSE <<>>) \o <<END_VTODO>>
PairsThenBegin(k, c) ==
    PairLines(k, c) \o <<BEGIN_VTODO>> \o (IF 0 \in c THEN <<<<"U","I","D",":","l","a","s","t">>>> ELSE <<>>)
PairFiles ==
    {JoinLines(PairsThenBegin(k, c), CRLF) : k \in 0..MaxPairs, c \in SUBSET {0, 1}}

\* The lines of a block: the values of PRIORITY,
PriorityLines ==
    {<<"P","R","I","O","R","I","T","Y",":">> \o v : v \in {<<>>, <<"0">>, <<"1">>, <<"2">>, <<"3">>, <<"4">>, <<"5">>, <<"6">>, <<"7">>,
                                 <<"8">>, <<"9">>, <<"1","0">>, <<"a","b","c">>}}
    \cup {<<"S","U","M","M","A","R","Y",":","B","u","y"," ","m","i","l","k">>}
\* the shapes of a CREATED and of a DTSTAMP value,
CreatedValues ==
    {<<"2","0","2","5","0","1","0","1","T","1","2","0","0","0","0","Z">>, <<"2","0","2","5","0","1","0","2","T","1","3","0","0","0","0","Z">>, <<"2","0","2","5","0","1","0","3">>, <<"2","0","2","5","0","2","3","0","T","1","2","0","0","0","0","Z">>,
     <<"j","u","n","k">>, <<"2","0","2","5","0","1","0","1","T","1","2","0","0","0","U+00E9">>}
CreatedLines ==
    {<<"C","R","E","A","T","E","D",":">> \o v : v \in CreatedValues} \cup {<<"D","T","S","T","A","M","P",":">> \o v : v \in CreatedValues}
\* the shapes of a DUE value,
DueLines ==
    {<<"D","U","E",":","2","0","2","5","0","6","1","5">>, <<"D","U","E",";","V","A","L","U","E","=","D","A","T","E",":","2","0","2","5","0","6","1","5","T","1","2","0","0","0","0","Z">>, <<"D","U","E",":","2","0","2","5","0","2","3","0">>,
     <<"D","U","E",":","2","0","2","5","0","6","1">>, <<"D","U","E",":","-","2","0","2","0","1","0","1">>, <<"D","U","E",":","2","0","2","5","0","6","1","U+00E9">>, <<"D","U","E",":","2","0","2","5","a","b","1","5">>, <<"D","U","E",":","2","0","2","5","+","6","+","5">>}
\* and the other properties, with lines that are none.
OtherLines ==
    {<<"U","I","D",":","a","b","c","-","1">>, <<"U","I","D",":">>, <<"S","U","M","M","A","R","Y",":">>, <<"S","U","M","M","A","R","Y",":","a","\\","\\","n","b","\\",";","c">>, <<"D","E","S","C","R","I","P","T","I","O","N",":","t","w","o","\\","n","l","i","n","e","s">>,
     <<"S","T","A","T","U","S",":","C","O","M","P","L","E","T","E","D">>, <<"S","T","A","T","U","S",":","N","E","E","D","S","-","A","C","T","I","O","N">>, <<"C","A","T","E","G","O","R","I","E","S",":","a","\\",",","b">>, <<"X","-","F","O","O",":","1">>,
     <<"n","o"," ","c","o","l","o","n">>, <<" "," ">>}
BlockFile(ls) == <<"B","E","G","I","N",":","V","T","O","D","O","\r","\n">> \o JoinLines(ls, CRLF) \o <<"E","N","D",":","V","T","O","D","O","\r","\n">>
BlockFiles ==
    {BlockFile(ls) : ls \in SeqsUpTo(PriorityLines, MaxBlockLines)
                           \cup SeqsUpTo(CreatedLines, MaxBlockLines)
                           \cup SeqsUpTo(DueLines, MaxBlockLines)
                           \cup SeqsUpTo(OtherLines, MaxBlockLines)}

\* The todos the frontend hands to save_todos_to_calendar: one with the fields a
\* todo must have, one with every field, and three with fields that are odd.
PlainTodo ==
    [id |-> <<"t","1">>, title |-> <<"B","u","y"," ","m","i","l","k">>, description |-> <<>>, completed |-> FALSE,
     priority |-> <<"m","e","d","i","u","m">>, category |-> None, due_date |-> None,
     created_at |-> None, calendar_name |-> CalendarName]
FullTodo ==
    [id |-> <<"t","2">>, title |-> <<"B","o","b",";"," ","m","i","l","k",","," ","g","o">>,
     description |-> <<"t","w","o","\n","l","i","n","e","s">>, completed |-> TRUE, priority |-> <<"h","i","g","h">>,
     category |-> Some(<<"h","o","m","e">>), due_date |-> Some(<<"2","0","2","5","-","0","6","-","1","5">>),
     created_at |-> Some(<<"2","0","2","5","-","0","1","-","0","2","T","1","3",":","0","0",":","0","0">>), calendar_name |-> CalendarName]
OddTodo ==
    [id |-> <<"t","3">>, title |-> <<"a","\\","n","b">>, description |-> <<>>, completed |-> FALSE,
     priority |-> <<"u","r","g","e","n","t">>, category |-> Some(<<>>), due_date |-> Some(<<"2","0","2","5","-","0","2","-","3","0">>),
     created_at |-> Some(<<"l","a","t","e","r">>), calendar_name |-> CalendarName]
BlankTodo ==
    [id |-> <<>>, title |-> <<>>, description |-> <<>>, completed |-> TRUE,
     priority |-> <<"l","o","w">>, category |-> None, due_date |-> Some(<<"s","o","o","n">>),
     created_at |-> Some(<<"2","0","2","5","-","0","1","-","0","2">>), calendar_name |-> CalendarName]
TwoLineIdTodo == [PlainTodo EXCEPT !.id = <<"a","\n","b">>]
TodoPool == {PlainTodo, FullTodo, OddTodo, BlankTodo, TwoLineIdTodo}

(***************************************************************************)
(* The commands.                                                           *)
(***************************************************************************)
CodecIdle == text = <<>> /\ escaped = <<>> /\ unescaped = <<>>
FilesIdle == file = <<>> /\ todos = <<>> /\ loaded = <<>> /\ todo_count = 0 /\ ran = {}

\* escape_ical_text(text)
Escape ==
    /\ pc = "ready"
    /\ escaped' = escape_ical_text(text)
    /\ pc' = "escaped"
    /\ UNCHANGED <<file, todos, loaded, todo_count, ran, text, unescaped>>

\* unescape_ical_text of what escape_ical_text returned
Unescape ==
    /\ pc = "escaped"
    /\ unescaped' = unescape_ical_text(escaped)
    /\ pc' = "unescaped"
    /\ UNCHANGED <<file, todos, loaded, todo_count, ran, text, escaped>>

\* The command save_todos_to_calendar(calendar_path, todos).
Save ==
    /\ pc = "ready"
    /\ \E c \in ClockRuns :
           file' = save_todos_to_calendar(todos, [k \in 1..Len(todos) |-> UtcNow(c, k)])
    /\ ran' = {"save"}
    /\ loaded' = <<>>
    /\ todo_count' = 0
    /\ UNCHANGED <<pc, todos, text, escaped, unescaped>>

\* The command load_todos_from_calendar(calendar_path): a panic ends it with no
\* result.
Load ==
    /\ pc = "ready"
    /\ \E r \in UuidRuns :
           LET res == load_todos_from_calendar(file,
                          [k \in 1..Len(VtodoBlocks(file)) |-> NewUuid(r, k)])
           IN  IF res.kind = "Panic"
               THEN pc' = "panic" /\ UNCHANGED <<loaded, ran>>
               ELSE pc' = pc /\ loaded' = res.todos /\ ran' = ran \cup {"load"}
    /\ UNCHANGED <<file, todos, todo_count, text, escaped, unescaped>>

\* count_todos_in_file(path), which list_calendars calls for every calendar file.
Count ==
    /\ pc = "ready"
    /\ todo_count' = count_todos_in_file(file)
    /\ ran' = ran \cup {"count"}
    /\ UNCHANGED <<pc, file, todos, loaded, text, escaped, unescaped>>

(***************************************************************************)
(* Spec: todos of the frontend are saved, and the file loaded and counted. *)
(***************************************************************************)
Init ==
    /\ pc = "ready"
    /\ todos \in SeqsUpTo(TodoPool, MaxTodos)
    /\ file = <<>> /\ loaded = <<>> /\ todo_count = 0 /\ ran = {}
    /\ CodecIdle

Next == Save \/ Load \/ Count

Spec == Init /\ [][Next]_vars

(***************************************************************************)
(* SpecRead: a calendar file written by anyone is loaded and counted.      *)
(***************************************************************************)
InitRead ==
    /\ pc = "ready"
    /\ file \in ScanFiles \cup PairFiles \cup BlockFiles
    /\ todos = <<>> /\ loaded = <<>> /\ todo_count = 0 /\ ran = {}
    /\ CodecIdle

NextRead == Load \/ Count

SpecRead == InitRead /\ [][NextRead]_vars

(***************************************************************************)
(* SpecEscape: a text is escaped, and the result unescaped.                *)
(***************************************************************************)
InitEscape ==
    /\ pc = "ready"
    /\ text \in StringsUpTo(EscapeAlphabet, MaxTextLen)
    /\ escaped = <<>> /\ unescaped = <<>>
    /\ FilesIdle

NextEscape == Escape \/ Unescape

SpecEscape == InitEscape /\ [][NextEscape]_vars

(***************************************************************************)
(* What the claims speak of.                                               *)
(***************************************************************************)
\* No character of s is a control character (NUL is one).
NoControl(s) == \A i \in 1..Len(s) : ~IsControl(s[i])

\* s is YYYY-MM-DD, a date of the calendar.
IsIsoDate(s) ==
    /\ Len(s) = 10
    /\ \A i \in {1, 2, 3, 4, 6, 7, 9, 10} : IsDigit(s[i])
    /\ s[5] = "-" /\ s[8] = "-"
    /\ ValidYmd(DigitsValue(SubSeq(s, 1, 4)), DigitsValue(SubSeq(s, 6, 7)),
                DigitsValue(SubSeq(s, 9, 10)))

\* s is YYYY-MM-DDTHH:MM:SS, a date of the calendar and a time of the day.
IsIsoDateTime(s) ==
    /\ Len(s) = 19
    /\ IsIsoDate(SubSeq(s, 1, 10))
    /\ s[11] = "T" /\ s[14] = ":" /\ s[17] = ":"
    /\ \A i \in {12, 13, 15, 16, 18, 19} : IsDigit(s[i])
    /\ DigitsValue(SubSeq(s, 12, 13)) < 24
    /\ DigitsValue(SubSeq(s, 15, 16)) < 60
    /\ DigitsValue(SubSeq(s, 18, 19)) < 60

\* A todo whose fields are well formed: an id and a title that are lines of
\* text with nothing to trim, one of the three priorities, dates in ISO form.
WellFormed(t) ==
    /\ t.id # <<>> /\ NoControl(t.id) /\ Trim(t.id) = t.id
    /\ t.title # <<>> /\ NoControl(t.title) /\ Trim(t.title) = t.title
    /\ t.priority \in {<<"h","i","g","h">>, <<"m","e","d","i","u","m">>, <<"l","o","w">>}
    /\ (IsSome(t.category) => NoControl(Unwrap(t.category)))
    /\ (IsSome(t.due_date) => IsIsoDate(Unwrap(t.due_date)))
    /\ (IsSome(t.created_at) =>
            IsIsoDate(Unwrap(t.created_at)) \/ IsIsoDateTime(Unwrap(t.created_at)))

\* created_at kept: to the second with a time, to the day without.
CreatedKept(was, got) ==
    IF ~IsSome(was) THEN ~IsSome(got)
    ELSE IsSome(got)
         /\ IF Len(Unwrap(was)) > 10 THEN got = was
            ELSE SubSeq(Unwrap(got), 1, 10) = Unwrap(was)

\* The fields of todo was that a round trip is to keep, kept in got.
FieldsKept(was, got) ==
    /\ got.id = was.id /\ got.title = was.title /\ got.completed = was.completed
    /\ got.priority = was.priority /\ got.category = was.category
    /\ got.due_date = was.due_date
    /\ CreatedKept(was.created_at, got.created_at)

\* C1: well-formed todos that were saved and then loaded come back as many, in
\* the same order, each with its id, title, completed, priority, category,
\* due_date and created_at.
C1_RoundTrip ==
    ({"save", "load"} \subseteq ran /\ \A k \in 1..Len(todos) : WellFormed(todos[k]))
        => /\ Len(loaded) = Len(todos)
           /\ \A k \in 1..Len(todos) : FieldsKept(todos[k], loaded[k])

\* C2: a text without control characters is what unescaping its escaped form
\* returns.
C2_EscapeRoundTrip ==
    (pc = "unescaped" /\ NoControl(text)) => unescaped = text

\* C3: loading never panics, and a load returns one todo for every block it
\* scanned.
C3_ParsingTotal ==
    /\ pc # "panic"
    /\ "load" \in ran => Len(loaded) = Len(VtodoBlocks(file))

\* The todo has an id and a title, one of the three priorities, and dates that
\* are absent or dates.
TodoValid(t) ==
    /\ t.id # <<>> /\ t.title # <<>>
    /\ t.priority \in {<<"h","i","g","h">>, <<"m","e","d","i","u","m">>, <<"l","o","w">>}
    /\ (IsSome(t.due_date) => IsIsoDate(Unwrap(t.due_date)))
    /\ (IsSome(t.created_at) =>
            IsIsoDate(Unwrap(t.created_at)) \/ IsIsoDateTime(Unwrap(t.created_at)))

\* C8: every todo the parser returns has a non-empty id and title, a priority of
\* high, medium or low, a due_date that is absent or YYYY-MM-DD, and a created_at
\* that is absent, YYYY-MM-DD or YYYY-MM-DDTHH:MM:SS.
C8_RecordsValid ==
    "load" \in ran => \A k \in 1..Len(loaded) : TodoValid(loaded[k])

(***************************************************************************)
(* The lines of a block, as the claims read them.                          *)
(***************************************************************************)
\* Line l is a property line whose name, before any ";", is one of names.
IsProperty(l, names) == Find(Trim(l), ":") # 0 /\ BaseProperty(Trim(l)) \in names

\* The value of property line l.
ValueOf(l) == PropertyValue(Trim(l))

\* The indices of the lines of block b that are properties named in names.
PropertiesAt(b, names) == {i \in 1..Len(b) : IsProperty(b[i], names)}

\* The greatest element of a non-empty set of numbers.
Greatest(S) == CHOOSE x \in S : \A y \in S : y <= x

\* The least element of a non-empty set of numbers.
Least(S) == CHOOSE x \in S : \A y \in S : x <= y

\* The block with a UID line whose value is not empty last among its UID lines.
HasUid(b) ==
    LET at == PropertiesAt(b, {<<"U","I","D">>})
    IN  at # {} /\ ValueOf(b[Greatest(at)]) # <<>>

\* Lists a and b of the todos of blocks bs are the same, but for the ids of the
\* blocks that have no UID.
SameButFreshIds(bs, a, b) ==
    /\ Len(a) = Len(b)
    /\ \A k \in 1..Len(a) :
           /\ [a[k] EXCEPT !.id = <<>>] = [b[k] EXCEPT !.id = <<>>]
           /\ (k <= Len(bs) /\ HasUid(bs[k])) => a[k].id = b[k].id

\* Texts f and g are the same, but for the values of their DTSTAMP lines.
SameButDtstamp(f, g) ==
    LET lf == Lines(f)
        lg == Lines(g)
    IN  /\ Len(lf) = Len(lg)
        /\ \A i \in 1..Len(lf) :
               lf[i] = lg[i] \/ (StartsWith(lf[i], <<"D","T","S","T","A","M","P",":">>) /\ StartsWith(lg[i], <<"D","T","S","T","A","M","P",":">>))

\* C4 as claimed: a second load of the same file returns what the first did, and a
\* second save of the same todos writes what the first did.
C4_Pure ==
    [][/\ ("load" \in ran /\ "load" \in ran' /\ file' = file) => loaded' = loaded
       /\ ("save" \in ran /\ "save" \in ran' /\ todos' = todos) => file' = file]_vars

\* C4: a second load of the same file returns what the first did but for the ids
\* of the blocks that have no UID, and a second save of the same todos writes
\* what the first did but for the values of the DTSTAMP lines.
C4_PureButUuidAndClock ==
    [][/\ ("load" \in ran /\ "load" \in ran' /\ file' = file)
            => SameButFreshIds(VtodoBlocks(file), loaded, loaded')
       /\ ("save" \in ran /\ "save" \in ran' /\ todos' = todos)
            => SameButDtstamp(file, file')]_vars

\* A saved file has been loaded: one todo came back with its id, one with a new.
C4_Witness ==
    /\ {"save", "load"} \subseteq ran
    /\ \E j, k \in 1..Len(loaded) :
           /\ todos[j].id # <<>> /\ loaded[j].id = todos[j].id
           /\ todos[k].id = <<>> /\ loaded[k].id = NewUuid("2", k)

\* The file is one block, and has been loaded.
OneBlockLoaded == "load" \in ran /\ Len(VtodoBlocks(file)) = 1 /\ Len(loaded) = 1
TheBlock == VtodoBlocks(file)[1]

\* What a CREATED or DTSTAMP line gives: its date or date-time, or nothing.
CreatedOf(l) ==
    IF ParseCreated(ValueOf(l)).kind = "set" THEN Some(ParseCreated(ValueOf(l)).value) ELSE None

\* The block has one CREATED line and one DTSTAMP line.
BothStamps(b) ==
    /\ Cardinality(PropertiesAt(b, {<<"C","R","E","A","T","E","D">>})) = 1
    /\ Cardinality(PropertiesAt(b, {<<"D","T","S","T","A","M","P">>})) = 1
LaterStamp(b) == b[Greatest(PropertiesAt(b, {<<"C","R","E","A","T","E","D">>, <<"D","T","S","T","A","M","P">>}))]
EarlierStamp(b) == b[Least(PropertiesAt(b, {<<"C","R","E","A","T","E","D">>, <<"D","T","S","T","A","M","P">>}))]

\* C5 as claimed: with a CREATED and a DTSTAMP line in the block, created_at is
\* what the later of the two gives, whatever the shape of its value.
C5_LaterWins ==
    (OneBlockLoaded /\ BothStamps(TheBlock))
        => loaded[1].created_at = CreatedOf(LaterStamp(TheBlock))

\* C5: with a CREATED and a DTSTAMP line in the block, the created_at of the todo
\* the parser returns is what the later of the two gives when its value is a date
\* or a date-time, and what the earlier gives when the value of the later is none.
C5_LaterValidWins ==
    (OneBlockLoaded /\ BothStamps(TheBlock))
        => loaded[1].created_at =
               IF IsSome(CreatedOf(LaterStamp(TheBlock)))
               THEN CreatedOf(LaterStamp(TheBlock))
               ELSE CreatedOf(EarlierStamp(TheBlock))

\* A block was parsed whose later stamp gives nothing and whose earlier a value.
C5_Witness ==
    /\ OneBlockLoaded /\ BothStamps(TheBlock)
    /\ ~IsSome(CreatedOf(LaterStamp(TheBlock)))
    /\ IsSome(CreatedOf(EarlierStamp(TheBlock)))
    /\ IsSome(loaded[1].created_at)

\* The files of k complete BEGIN:VTODO/END:VTODO pairs and one BEGIN:VTODO more.
PairsThenBeginFiles(k) == {JoinLines(PairsThenBegin(k, c), CRLF) : c \in SUBSET {0, 1}}

\* The file has been counted and loaded.
CountedAndLoaded == {"count", "load"} \subseteq ran

\* C6 as claimed: of k complete pairs and a trailing BEGIN:VTODO, the count is
\* k + 1 and the load returns k todos.
C6_TrailingBeginDropped ==
    \A k \in 0..MaxPairs :
        (CountedAndLoaded /\ file \in PairsThenBeginFiles(k))
            => todo_count = k + 1 /\ Len(loaded) = k

\* C6: of k complete BEGIN:VTODO/END:VTODO pairs and a trailing BEGIN:VTODO with
\* no END:VTODO, count_todos_in_file returns k + 1 and load_todos_from_calendar
\* returns k + 1 todos.
C6_TrailingBeginKept ==
    \A k \in 0..MaxPairs :
        (CountedAndLoaded /\ file \in PairsThenBeginFiles(k))
            => /\ todo_count = k + 1
               /\ Len(loaded) = k + 1

\* Three pairs and a trailing BEGIN:VTODO were counted, 4, and loaded, 4 todos.
C6_Witness ==
    /\ CountedAndLoaded /\ file \in PairsThenBeginFiles(3)
    /\ todo_count = 4 /\ Len(loaded) = 4

\* The lines of the file that are BEGIN:VTODO after trimming.
BeginsAt(lines) == {i \in 1..Len(lines) : Trim(lines[i]) = BEGIN_VTODO}

\* The BEGIN:VTODO lines that open a block: those with no opening BEGIN:VTODO
\* before them that no END:VTODO line in between has closed.
OpeningsAt(lines) ==
    LET opens[i \in 0..Len(lines)] ==
            /\ i \in BeginsAt(lines)
            /\ \A j \in 1..(i - 1) :
                   opens[j] => \E e \in (j + 1)..(i - 1) : Trim(lines[e]) = END_VTODO
    IN  {i \in 1..Len(lines) : opens[i]}

\* C7 as claimed: the count is the number of lines that are BEGIN:VTODO after
\* trimming, one inside an open block too.
C7_CountsEveryBegin ==
    "count" \in ran => todo_count = Cardinality(BeginsAt(Lines(file)))

\* C7: count_todos_in_file returns the number of lines that are BEGIN:VTODO after
\* trimming and open a block, with or without an END:VTODO after them; a
\* BEGIN:VTODO line inside an open block, before its END:VTODO, is not counted.
C7_CountsOpeningBegins ==
    "count" \in ran => todo_count = Cardinality(OpeningsAt(Lines(file)))

\* A file was counted with a BEGIN:VTODO inside a block and a block never closed.
C7_Witness ==
    /\ "count" \in ran
    /\ todo_count = 2
    /\ Cardinality(BeginsAt(Lines(file))) = 3
    /\ Trim(Lines(file)[Len(Lines(file))]) = BEGIN_VTODO

\* The priority the claim gives a PRIORITY value: by the one digit it is.
Bucket(v) ==
    IF Len(v) = 1 /\ IsDigit(v[1]) /\ DigitVal(v[1]) \in 1..3 THEN <<"h","i","g","h">>
    ELSE IF Len(v) = 1 /\ IsDigit(v[1]) /\ DigitVal(v[1]) \in 7..9 THEN <<"l","o","w">>
    ELSE <<"m","e","d","i","u","m">>

\* C9: the priority of the todo of a block is high for a PRIORITY line of value
\* 1 to 3, medium for 4 to 6, low for 7 to 9, medium for any other value of it,
\* and medium for a block with no PRIORITY line; the last PRIORITY line counts.
C9_PriorityBuckets ==
    OneBlockLoaded =>
        LET at == PropertiesAt(TheBlock, {<<"P","R","I","O","R","I","T","Y">>})
        IN  loaded[1].priority =
                IF at = {} THEN <<"m","e","d","i","u","m">> ELSE Bucket(ValueOf(TheBlock[Greatest(at)]))

\* A block with PRIORITY:9 was parsed to a todo of priority low.
C9_Witness ==
    /\ OneBlockLoaded
    /\ PropertiesAt(TheBlock, {<<"P","R","I","O","R","I","T","Y">>}) # {}
    /\ ValueOf(TheBlock[Greatest(PropertiesAt(TheBlock, {<<"P","R","I","O","R","I","T","Y">>}))]) = <<"9">>
    /\ loaded[1].priority = <<"l","o","w">>

\* What is claimed of a line of the file: its whole text, or how it starts.
Whole(l) == [line |-> l, whole |-> TRUE]
Starts(p) == [line |-> p, whole |-> FALSE]
Meets(l, claimed) == IF claimed.whole THEN l = claimed.line ELSE StartsWith(l, claimed.line)

\* The number of PRIORITY claimed for a priority.
ClaimedPriority(p) ==
    CASE p = <<"h","i","g","h">> -> <<"1">> [] p = <<"m","e","d","i","u","m">> -> <<"5">> [] p = <<"l","o","w">> -> <<"9">> [] OTHER -> <<"5">>

\* The lines claimed of the block of todo t, in their order.
ClaimedBlock(t) ==
    <<Whole(<<"B","E","G","I","N",":","V","T","O","D","O">>), Starts(<<"U","I","D",":">>), Starts(<<"S","U","M","M","A","R","Y",":">>)>>
    \o (IF t.description # <<>> THEN <<Starts(<<"D","E","S","C","R","I","P","T","I","O","N",":">>)>> ELSE <<>>)
    \o <<Starts(<<"S","T","A","T","U","S",":">>), Whole(<<"P","R","I","O","R","I","T","Y",":">> \o ClaimedPriority(t.priority))>>
    \o (IF IsSome(t.category) THEN <<Starts(<<"C","A","T","E","G","O","R","I","E","S",":">>)>> ELSE <<>>)
    \o (IF IsSome(t.due_date) /\ ParseNaiveDate(Unwrap(t.due_date)).ok
        THEN <<Starts(<<"D","U","E",":">>)>> ELSE <<>>)
    \o (IF IsSome(t.created_at)
           /\ (ParseNaiveDate(Unwrap(t.created_at)).ok
               \/ ParseNaiveDateTime(Unwrap(t.created_at)).ok)
        THEN <<Starts(<<"C","R","E","A","T","E","D",":">>)>> ELSE <<>>)
    \o <<Starts(<<"D","T","S","T","A","M","P",":">>), Whole(<<"E","N","D",":","V","T","O","D","O">>)>>

RECURSIVE ClaimedBlocks(_)
ClaimedBlocks(ts) ==
    IF ts = <<>> THEN <<>> ELSE ClaimedBlock(Head(ts)) \o ClaimedBlocks(Tail(ts))

\* The lines claimed of the file of todos ts.
ClaimedFile(ts) ==
    <<Whole(<<"B","E","G","I","N",":","V","C","A","L","E","N","D","A","R">>), Whole(<<"V","E","R","S","I","O","N",":","2",".","0">>),
      Whole(<<"P","R","O","D","I","D",":","-","/","/","T","o","d","o"," ","C","a","l","e","n","d","a","r","/","/","T","o","d","o"," ","C","a","l","e","n","d","a","r","/","/","E","N">>), Whole(<<"C","A","L","S","C","A","L","E",":","G","R","E","G","O","R","I","A","N">>)>>
    \o ClaimedBlocks(ts) \o <<Whole(<<"E","N","D",":","V","C","A","L","E","N","D","A","R">>)>>

\* C10: the saved file is the four lines of the header, for each todo in order the
\* lines BEGIN:VTODO, UID, SUMMARY, DESCRIPTION if there is one, STATUS, PRIORITY
\* (1 for high, 5 for medium, 9 for low, 5 for anything else), CATEGORIES if there
\* is a category, DUE and CREATED if present and encodable, DTSTAMP and END:VTODO,
\* then END:VCALENDAR; and every line ends with CRLF.
C10_SavedAsClaimed ==
    "save" \in ran =>
        /\ JoinLines(Lines(file), CRLF) = file
        /\ Len(Lines(file)) = Len(ClaimedFile(todos))
        /\ \A i \in 1..Len(Lines(file)) : Meets(Lines(file)[i], ClaimedFile(todos)[i])

\* The date read in the value of a DUE line: its first 8 characters when they are
\* eight digits YYYYMMDD that are a date of the calendar, as YYYY-MM-DD; else none.
ClaimedDue(v) ==
    IF /\ Len(v) >= 8
       /\ \A i \in 1..8 : IsDigit(v[i])
       /\ ValidYmd(DigitsValue(SubSeq(v, 1, 4)), DigitsValue(SubSeq(v, 5, 6)),
                   DigitsValue(SubSeq(v, 7, 8)))
    THEN Some(SubSeq(v, 1, 4) \o <<"-">> \o SubSeq(v, 5, 6) \o <<"-">> \o SubSeq(v, 7, 8))
    ELSE None

\* The file is one block with one DUE line and no other date line.
OneDueLine ==
    /\ Len(VtodoBlocks(file)) = 1
    /\ Cardinality(PropertiesAt(TheBlock, {<<"D","U","E">>})) = 1
    /\ PropertiesAt(TheBlock, {<<"C","R","E","A","T","E","D">>, <<"D","T","S","T","A","M","P">>}) = {}
TheDueLine == TheBlock[Greatest(PropertiesAt(TheBlock, {<<"D","U","E">>}))]

\* C11: a DUE line whose value is at least 8 characters long and starts with a
\* valid YYYYMMDD date sets due_date to that date as YYYY-MM-DD, whatever follows
\* the 8 characters and whatever parameters follow the name; any other DUE line
\* leaves due_date unset; and no DUE line raises an error.
C11_DueLine ==
    OneDueLine =>
        /\ pc # "panic"
        /\ "load" \in ran => loaded[1].due_date = ClaimedDue(ValueOf(TheDueLine))

\* C12: the number count_todos_in_file returns is the number of blocks
\* load_todos_from_calendar scans in the same text, and the number of todos it
\* returns: the two loops open and close blocks at the same lines, a BEGIN:VTODO
\* never closed and a BEGIN:VTODO inside an open block included.
C12_CountIsLoaded ==
    /\ "count" \in ran => todo_count = Len(VtodoBlocks(file))
    /\ CountedAndLoaded => todo_count = Len(loaded)

\* A file with a BEGIN:VTODO inside a block and a block never closed was counted
\* and loaded: 2, and two todos.
C12_Witness ==
    /\ CountedAndLoaded
    /\ Cardinality(BeginsAt(Lines(file))) = 3
    /\ Trim(Lines(file)[Len(Lines(file))]) = BEGIN_VTODO
    /\ todo_count = 2 /\ Len(loaded) = 2

=============================================================================
